---- MODULE Spec2Model ----
(***************************************************************************)
(* Guardrail compliance service: the /scan handler (routers/scan.py), the  *)
(* /aggregate/results handler (routers/aggregator_result.py), the reply    *)
(* parser (services/parser.py) and the rule filter (utils/utils.py).       *)
(*                                                                         *)
(* Numbers between 0 and 1 (scores, thresholds) are held in hundredths.    *)
(* A text is a sequence of lines; a line is a record [kind, sec, num, den].*)
(* The process serves one request at a time; the state that outlives a     *)
(* request is the cached assistant id (lru_cache on get_assistant_id).     *)
(***************************************************************************)
EXTENDS Integers, Sequences, FiniteSets, TLC

\* ---------------------------------------------------------------- bounds
MaxRules == 2          \* longest rule set a rule file holds
MaxFailed == 2         \* most keys of an aggregation request's failed_json
MaxTerms == 2          \* most terms of one clause of a filter expression
MaxLines == 4          \* most lines of a text handed to parse_evaluation
MaxWorkers == 3        \* most worker threads inside _assistant_stream at once

\* ------------------------------------------------------ program constants
max_documents == 10    \* Settings.max_documents
max_document_size == 1048576    \* Settings.max_document_size, in bytes

Null == "null"

\* ------------------------------------------------------------- rule sets
RuleIds == {"PC1", "PC2"}
Thresholds == {50, 97}

NameOf(id) == IF id = "PC1" THEN "Grounded Response" ELSE "No Network"

\* A ComplianceDefinition as the handlers use it: id, name, threshold.
ComplianceDefinition == {[id |-> d, name |-> NameOf(d), threshold |-> t] :
                            d \in RuleIds, t \in Thresholds}

SeqsUpTo(S, n) == UNION {[1..k -> S] : k \in 0..n}

\* What load_compliances can return: any list of valid items. The loader
\* validates each item on its own, so two items may carry the same id.
RuleSets == SeqsUpTo(ComplianceDefinition, MaxRules)

\* load_compliances: the rule list, or the exception it raises.
LoadOutcomes == {"ok", "ValueError", "FileNotFoundError", "YAMLError",
                 "UnicodeDecodeError", "RuntimeError"}

\* Settings.compliance_map: the known use cases.
compliance_map == {"generic", "azure_ccc"}
UseCases == {"generic", "no_such_use_case"}

\* Settings.get_compliance_file raises ValueError for an unknown use case.
get_compliance_file(use_case) ==
    IF use_case \in compliance_map THEN "ok" ELSE "ValueError"

\* ------------------------------------------------- compliance_service.py
\* A rule file as load_compliances meets it. file: "missing" (the path does
\* not exist), "unreadable" (read_text raises PermissionError),
\* "undecodable" (the bytes are not UTF-8: read_text raises
\* UnicodeDecodeError), "bad_yaml" (safe_load raises YAMLError), "yaml" (it
\* parses). top is the shape of the parsed data: "not_dict", "no_key" (no
\* 'compliances' key), "not_list" ('compliances' is no list), "list".
\* An item of the list is "valid", or is spoilt in one way: "not_dict",
\* "missing_field" (one of id, name, description, threshold is absent),
\* "threshold_not_number", or "bad_constraint" (it passes
\* validate_compliance_data and fails a Field constraint of
\* ComplianceDefinition: no prompt, a threshold above 1, an id with a
\* space, ...).
ItemShapes == {"valid", "not_dict", "missing_field", "threshold_not_number",
               "bad_constraint"}

Items == {[shape |-> "valid", id |-> d, threshold |-> t] :
             d \in RuleIds, t \in Thresholds}
         \cup {[shape |-> s, id |-> "PC1", threshold |-> 50] :
                 s \in ItemShapes \ {"valid"}}

Sources ==
    {[file |-> f, top |-> "none", items |-> <<>>] :
        f \in {"missing", "unreadable", "undecodable", "bad_yaml"}}
    \cup {[file |-> "yaml", top |-> t, items |-> <<>>] :
            t \in {"not_dict", "no_key", "not_list"}}
    \cup {[file |-> "yaml", top |-> "list", items |-> s] :
            s \in SeqsUpTo(Items, MaxRules)}

\* isinstance(e, cls) for the exception classes met here: a
\* UnicodeDecodeError is a ValueError.
IsInstance(type, cls) ==
    \/ type = cls
    \/ type = "UnicodeDecodeError" /\ cls = "ValueError"

\* validate_compliance_data: the loop over the items stops at the first
\* item that is no mapping, lacks a required field or has a threshold
\* that is no number.
validate_compliance_data(data) ==
    /\ data.top = "list"
    /\ \A k \in 1..Len(data.items) :
          data.items[k].shape \notin
             {"not_dict", "missing_field", "threshold_not_number"}

\* What a call of load_compliances ends with: the rules it returns
\* (raised = "ok"), or the exception it raises and that exception's cause.
Returns(rules) == [raised |-> "ok", cause |-> Null, rules |-> rules]

Raises(type, cause) == [raised |-> type, cause |-> cause, rules |-> <<>>]

\* Keeping the items that convert and dropping the others.
RECURSIVE convert_valid_items(_, _)
convert_valid_items(items, acc) ==
    IF items = <<>> THEN Returns(acc)
    ELSE LET item == Head(items)
         IN  IF item.shape # "valid"
             THEN convert_valid_items(Tail(items), acc)
             ELSE convert_valid_items(
                     Tail(items),
                     Append(acc, [id |-> item.id, name |-> NameOf(item.id),
                                  threshold |-> item.threshold]))

\* for item in items: compliances.append(ComplianceDefinition(**item));
\* the first item the model rejects raises ValueError from the
\* ValidationError.
RECURSIVE convert_items(_, _)
convert_items(items, acc) ==
    IF items = <<>> THEN Returns(acc)
    ELSE LET item == Head(items)
         IN  IF item.shape # "valid"
             THEN Raises("ValueError", "ValidationError")
             ELSE convert_items(
                     Tail(items),
                     Append(acc, [id |-> item.id, name |-> NameOf(item.id),
                                  threshold |-> item.threshold]))

\* The except clause that closes load_compliances: FileNotFoundError,
\* YAMLError and ValueError pass, anything else is raised again as a
\* RuntimeError from the original exception.
Rewrap(outcome) ==
    IF outcome.raised = "ok" THEN outcome
    ELSE IF \E cls \in {"FileNotFoundError", "YAMLError", "ValueError"} :
               IsInstance(outcome.raised, cls)
    THEN outcome
    ELSE Raises("RuntimeError", outcome.raised)

load_compliances(source) ==
    Rewrap(
        IF source.file = "missing"
        THEN Raises("FileNotFoundError", Null)
        ELSE IF source.file = "unreadable"
        THEN Raises("PermissionError", Null)
        ELSE IF source.file = "undecodable"
        THEN Raises("UnicodeDecodeError", Null)
        ELSE IF source.file = "bad_yaml"
        THEN Raises("YAMLError", "YAMLError")
        ELSE IF ~validate_compliance_data(source)
        THEN Raises("ValueError", Null)
        ELSE convert_items(source.items, <<>>))

\* --------------------------------------------------------------- texts
Line(k, s, n, d) == [kind |-> k, sec |-> s, num |-> n, den |-> d]
Hdr(s)      == Line("hdr", s, 0, 0)         \* "### <header of section s>"
HdrColon(s) == Line("hdrcolon", s, 0, 0)    \* the same, followed by ":"
HdrLower(s) == Line("hdrlower", s, 0, 0)    \* the same, in lower case
Txt(n)      == Line("txt", 0, n, 0)         \* a line of prose
Score(n, d) == Line("score", 0, n, d)       \* "Score: `n/d`"
Thr(n)      == Line("threshold", 0, n, 0)   \* "Threshold: `n`"
Res(n)      == Line("result", 0, n, 0)      \* "Result: Passed" (1) / "Failed" (0)

\* SECTION_HEADERS, in order; the last one is grade_raw.
SECTION_HEADERS == <<"problem", "why_it_failed", "what_to_fix",
                     "rephrase_prompt", "compliance_id_and_name", "grade_raw">>

Min(S) == CHOOSE x \in S : \A y \in S : x <= y

\* The header pattern of section s matches the line: re.IGNORECASE takes
\* the header in any case; the pattern has no place for a colon.
IsHeader(line, s) == line \in {Hdr(s), HdrLower(s)}

\* Operators that look for a line give its index, or 0 when there is none.
\* re.search of  start_pat \s*\n : the first line that is the header of
\* section s, with nothing but white space after it, followed by a newline
\* (so it is not the last line of the text).
HeaderAt(text, s) ==
    LET hits == {i \in 1..Len(text) : IsHeader(text[i], s) /\ i < Len(text)}
    IN  IF hits = {} THEN 0 ELSE Min(hits)

\* A section whose header is not found given the whole text.
_extract_block_or_all(text, s, has_next) ==
    LET i == HeaderAt(text, s)
        ends == IF has_next
                THEN {j \in (i + 2)..Len(text) :
                         IsHeader(text[j], s + 1) /\ j < Len(text)}
                ELSE {}
        stop == IF ends = {} THEN Len(text) + 1 ELSE Min(ends)
    IN  IF i = 0 THEN text ELSE SubSeq(text, i + 1, stop - 1)

\* _extract_block: the lines between the header of section s and the
\* header of the next section of the list (or the end of the text). The
\* look-ahead wants a newline before the next header, so the capture
\* cannot end before it has taken at least the line after the header.
_extract_block(text, s, has_next) ==
    LET i == HeaderAt(text, s)
        ends == IF has_next
                THEN {j \in (i + 2)..Len(text) :
                         IsHeader(text[j], s + 1) /\ j < Len(text)}
                ELSE {}
        stop == IF ends = {} THEN Len(text) + 1 ELSE Min(ends)
    IN  IF i = 0 THEN <<>> ELSE SubSeq(text, i + 1, stop - 1)

FirstOfKind(block, k) ==
    LET hits == {i \in 1..Len(block) : block[i].kind = k}
    IN  IF hits = {} THEN 0 ELSE Min(hits)

\* A grade block without a score line read as a full score.
GradeDefaultFull(grade_block) ==
    LET m == FirstOfKind(grade_block, "score")
        score == IF m = 0 THEN 100 ELSE grade_block[m].num
        denom == IF m = 0 THEN 1 ELSE grade_block[m].den
        t == FirstOfKind(grade_block, "threshold")
        r == FirstOfKind(grade_block, "result")
    IN  [score_raw |-> score,
         denominator |-> denom,
         score_ratio |-> IF denom # 0 THEN <<score, denom>> ELSE <<>>,
         threshold |-> IF t = 0 THEN -1 ELSE grade_block[t].num,
         result |-> IF r = 0 THEN -1 ELSE grade_block[r].num]

\* The grade record of parse_evaluation: score and denominator default to
\* 0.0 and 1.0; score_ratio is None when the denominator is 0. A ratio is
\* the pair <<numerator in hundredths, denominator>>.
Grade(grade_block) ==
    LET m == FirstOfKind(grade_block, "score")
        score == IF m = 0 THEN 0 ELSE grade_block[m].num
        denom == IF m = 0 THEN 1 ELSE grade_block[m].den
        t == FirstOfKind(grade_block, "threshold")
        r == FirstOfKind(grade_block, "result")
    IN  [score_raw |-> score,
         denominator |-> denom,
         score_ratio |-> IF denom # 0 THEN <<score, denom>> ELSE <<>>,
         threshold |-> IF t = 0 THEN -1 ELSE grade_block[t].num,
         result |-> IF r = 0 THEN -1 ELSE grade_block[r].num]

\* The block of the section at position s of SECTION_HEADERS; the last
\* section has no next header and runs to the end of the text.
Block(text, s) == _extract_block(text, s, s + 1 <= Len(SECTION_HEADERS))

parse_evaluation(text) ==
    [problem                |-> Block(text, 1),
     why_it_failed          |-> Block(text, 2),
     what_to_fix            |-> Block(text, 3),
     rephrase_prompt        |-> Block(text, 4),
     compliance_id_and_name |-> Block(text, 5),
     grade                  |-> Grade(Block(text, 6))]

\* ---------------------------------------------------------- rule filter
\* An expression is a sequence of tokens: "include:", "exclude:", ",",
\* "\n", and words (an id or a name, held as one token).
lower(w) ==
    CASE w = "PC1" -> "pc1"
      [] w = "PC2" -> "pc2"
      [] w = "Grounded Response" -> "grounded response"
      [] w = "No Network" -> "no network"
      [] w = "PC" -> "pc"
      [] w = "INCLUDE:" -> "include:"
      [] w = "EXCLUDE:" -> "exclude:"
      [] OTHER -> w

LowerAll(expression) == [k \in 1..Len(expression) |-> lower(expression[k])]

\* re.search(r"<clause>\s*:\s*([^\n\r]*)"): the tokens after the first
\* occurrence of the clause keyword, up to the end of its line.
ClauseCapture(expression, keyword) ==
    LET hits == {k \in 1..Len(expression) : expression[k] = keyword}
        k0 == Min(hits)
        nls == {k \in (k0 + 1)..Len(expression) : expression[k] = "\n"}
        stop == IF nls = {} THEN Len(expression) + 1 ELSE Min(nls)
    IN  SubSeq(expression, k0 + 1, stop - 1)

\* set(map(str.strip, capture.split(","))): the terms between the commas,
\* each the sequence of the tokens it is made of (<<>> is the empty term).
SplitTerms(capture) ==
    LET cuts == {0, Len(capture) + 1} \cup
                {k \in 1..Len(capture) : capture[k] = ","}
    IN  {SubSeq(capture, a + 1, b - 1) :
            <<a, b>> \in {p \in cuts \X cuts :
                            /\ p[1] < p[2]
                            /\ \A c \in cuts : ~(p[1] < c /\ c < p[2])}}

\* A clause that is absent read as a clause with one blank term.
ClauseTermsOrBlank(expression, keyword) ==
    IF \E k \in 1..Len(expression) : expression[k] = keyword
    THEN SplitTerms(ClauseCapture(expression, keyword))
    ELSE {<<>>}

ClauseTerms(expression, keyword) ==
    IF \E k \in 1..Len(expression) : expression[k] = keyword
    THEN SplitTerms(ClauseCapture(expression, keyword))
    ELSE {}

match_term(comp, terms) ==
    \/ <<lower(comp.id)>> \in terms
    \/ <<lower(comp.name)>> \in terms

filter_compliances(compliances_, expression_) ==
    LET expression == LowerAll(expression_)
        include_terms == ClauseTerms(expression, "include:")
        exclude_terms == ClauseTerms(expression, "exclude:")
        Keep(comp) ==
            /\ ~(include_terms # {} /\ ~match_term(comp, include_terms))
            /\ ~(exclude_terms # {} /\ match_term(comp, exclude_terms))
    IN  SelectSeq(compliances_, Keep)

\* ------------------------------------------------------------- requests
Prompts == {"Summarize the attached function."}
DocCounts == {0, max_documents, max_documents + 1}

\* The byte size of the largest document of a request (0 with no document).
DocSizes == {0, 1, max_document_size + 1}

\* The filter expressions a caller sends as ?compliance_filter=...
ScanFilters == {<<>>, <<"include:", "PC1", "\n", "exclude:", "No Network">>}

\* A ScanRequest with the query parameters of the call; documents is held
\* as the length of the list and the size of its largest element.
ScanRequest ==
    {r \in [prompt : Prompts, documents : DocCounts,
            largest_document : DocSizes,
            use_case_id : UseCases, compliance_filter : ScanFilters] :
        (r.documents = 0) <=> (r.largest_document = 0)}

\* Settings.get_task_template: the header of a known use case.
get_task_template(use_case) == <<"task_template", use_case>>

\* build_prompt: the template filled with the header, the request and the
\* rule; the text depends on exactly these.
build_prompt(template, comp, req_, header) ==
    [template |-> template, task |-> header, user_input |-> req_.prompt,
     document_context |-> <<req_.documents, req_.largest_document>>,
     compliance |-> comp]

\* The replies the Assistants run can stream back for one rule.
ReplyScores == {66, 100}
ReplyDenoms == {0, 1, 2}

GradedReply(n, d) ==
    <<Hdr(1), Txt(1), Hdr(2), Txt(2), Hdr(3), Txt(3), Hdr(4), Txt(4),
      Hdr(5), Txt(5), Hdr(6), Score(n, d), Thr(97), Res(0)>>

UngradedReply == <<Hdr(1), Txt(1), Hdr(4), Txt(4), Score(100, 1)>>

\* A Grade section with a threshold and a result and no score line.
UnscoredReply == <<Hdr(1), Txt(1), Hdr(4), Txt(4), Hdr(6), Thr(50), Res(1)>>

ScanReplies == {GradedReply(n, d) : n \in ReplyScores, d \in ReplyDenoms}
                  \cup {UngradedReply, UnscoredReply}

\* ---------------------------------------------------------------- state
VARIABLES
    pc,            \* where the handler of the current request stands
    handler,       \* the endpoint of the current request
    req,           \* the request being served
    load_outcome,  \* what load_compliances did for the current request
    compliances,   \* the rule list load_compliances returned
    idx,           \* position of the for loop over compliances (1-based)
    detailed,      \* scan: Dict[str, ComplianceResult]
    failures,      \* scan: List[str]
    thread,        \* scan: the messages of the request's Assistants thread
    llm_input,     \* the messages the run in flight presents to the model
    raw_reply,     \* scan: the reply of the last run that returned
    api_calls,     \* the API calls issued for the current request, in order
    assistant_id,  \* the lru_cache of get_assistant_id (Null: not filled)
    enriched,      \* aggregate: the enriched failing entries
    response,      \* the HTTP response of the current request
    workers,       \* where each worker thread stands in _assistant_stream
    assistants,    \* the assistants the process has created at the API
    call,          \* a function called on its own: its name and arguments
    returned,      \* whether that call has returned
    ret            \* what it returned

vars == <<pc, handler, req, load_outcome, compliances, idx, detailed,
          failures, thread, llm_input, raw_reply,
          api_calls, assistant_id, enriched, response, workers, assistants,
          call, returned, ret>>

\* The objects of the handlers.
serviceVars == <<pc, handler, req, load_outcome, compliances, idx, detailed,
                 failures, thread, llm_input, raw_reply,
                 api_calls, assistant_id, enriched, response>>

\* A call of one function outside the handlers.
callVars == <<call, returned, ret>>

\* The worker threads and the assistants they have created.
workerVars == <<workers, assistants>>

\* The request and the rule set loaded for it.
reqVars == <<handler, req, load_outcome, compliances>>

\* The objects of the scan loop.
loopVars == <<idx, detailed, failures, thread, llm_input, raw_reply>>

EmptyDict == [k \in {} |-> k]

Put(dict, key, value) ==
    [k \in DOMAIN dict \cup {key} |-> IF k = key THEN value ELSE dict[k]]

\* A response: the status, the error detail (a message and the ids it
\* names), and the fields of the ScanResponse or AggregationResponse
\* (body is detailed, respectively recommendations).
NoDetail == [msg |-> "", ids |-> {}]

NoResponse == [status |-> 0, detail |-> NoDetail, body |-> EmptyDict,
               aggregated_summary |-> Null, rephrased_prompt |-> Null]

\* raise HTTPException(status, detail), or an exception nothing catches
\* (FastAPI answers 500).
HTTPExceptionIds(status, msg, ids) ==
    [status |-> status, detail |-> [msg |-> msg, ids |-> ids],
     body |-> EmptyDict, aggregated_summary |-> Null,
     rephrased_prompt |-> Null]

HTTPException(status, msg) == HTTPExceptionIds(status, msg, {})

NoCall == [fn |-> "none"]

\* The worker threads asyncio.to_thread runs _assistant_stream in.
Workers == 1..MaxWorkers

\* The ids the API gives the assistants it creates, in order.
AssistantIds == <<"asst_1", "asst_2", "asst_3", "asst_4">>

\* A worker thread with no call to run.
NoWorker == [at |-> "idle", id |-> Null]

\* No thread has been handed a call and no assistant exists.
WorkerInit ==
    /\ workers = [w \in Workers |-> NoWorker]
    /\ assistants = <<>>

\* No request is being served.
NoRequest == [prompt |-> Null]

\* The service after start-up: no request yet, the assistant cache empty.
ServiceInit ==
    /\ pc = "idle"
    /\ handler = Null
    /\ req = NoRequest
    /\ load_outcome = Null
    /\ compliances = <<>>
    /\ idx = 0
    /\ detailed = EmptyDict
    /\ failures = <<>>
    /\ thread = <<>>
    /\ llm_input = <<>>
    /\ raw_reply = <<>>
    /\ api_calls = <<>>
    /\ assistant_id = Null
    /\ enriched = EmptyDict
    /\ response = NoResponse

Init ==
    /\ ServiceInit
    /\ WorkerInit
    /\ call = NoCall
    /\ returned = FALSE
    /\ ret = <<>>

\* load_compliances(settings.get_compliance_file(use_case)): the exception
\* raised, "ok" when the rule list is returned.
Loaded(use_case, outcome) ==
    IF get_compliance_file(use_case) = "ValueError" THEN "ValueError"
    ELSE outcome

\* ------------------------------------------------------------ scan.py
\* if req.documents and len(req.documents) > settings.max_documents
TooManyDocuments(req_) == req_.documents > max_documents

\* scan_compliance up to the document check: the use case is resolved, the
\* rule file is loaded (its content and the loader's outcome are the
\* environment's), the documents are counted.
ScanReceive(r, outcome, rules) ==
    /\ pc = "idle"
    /\ handler' = "scan"
    /\ req' = r
    /\ load_outcome' = Loaded(r.use_case_id, outcome)
    /\ api_calls' = <<>>
    /\ idx' = 0
    /\ detailed' = EmptyDict
    /\ failures' = <<>>
    /\ thread' = <<>>
    /\ llm_input' = <<>>
    /\ raw_reply' = <<>>
    /\ UNCHANGED <<assistant_id, enriched, callVars, workerVars>>
    /\ IF get_compliance_file(r.use_case_id) = "ValueError"
       THEN /\ response' = HTTPException(400, "Unknown use case")
            /\ compliances' = <<>>
            /\ pc' = "done"
       ELSE IF IsInstance(outcome, "ValueError")
       THEN /\ response' = HTTPException(400, "Invalid compliance data")
            /\ compliances' = <<>>
            /\ pc' = "done"
       ELSE IF outcome # "ok"
       THEN /\ response' = HTTPException(500, outcome)
            /\ compliances' = <<>>
            /\ pc' = "done"
       ELSE IF TooManyDocuments(r)
       THEN /\ response' = HTTPException(400, "Too many documents")
            /\ compliances' = rules
            /\ pc' = "done"
       ELSE /\ response' = NoResponse
            /\ compliances' = rules
            /\ pc' = "scan_thread"

\* thread = client.beta.threads.create()
ThreadCreate ==
    /\ pc = "scan_thread"
    /\ api_calls' = Append(api_calls, "threads.create")
    /\ thread' = <<>>
    /\ idx' = 1
    /\ pc' = "scan_loop"
    /\ UNCHANGED <<callVars, workerVars, reqVars, detailed, failures, llm_input, raw_reply,
                   assistant_id, enriched, response>>

\* The thread creation raises: nothing catches it.
ThreadCreateFails ==
    /\ pc = "scan_thread"
    /\ api_calls' = Append(api_calls, "threads.create")
    /\ response' = HTTPException(500, "APIError")
    /\ pc' = "done"
    /\ UNCHANGED <<callVars, workerVars, reqVars, loopVars, assistant_id, enriched>>

\* The rules the for loop of scan_compliance goes through.
ActiveRules(rules, req_) == rules

\* The messages a run on the thread presents to the model: all the
\* messages of the thread, the additional one included.
RunContext(thread_, message) == Append(thread_, message)

\* One turn of the loop up to the call: build_prompt, then run_assistant
\* -> _assistant_stream: get_assistant_id (creates the assistant when the
\* cache is empty) and runs.create_and_stream with the prompt as an
\* additional message of the request's thread.
RunAssistant ==
    /\ pc = "scan_loop"
    /\ idx <= Len(ActiveRules(compliances, req))
    /\ LET comp == ActiveRules(compliances, req)[idx]
           template == IF req.documents > 0 THEN "compliance_eval_with_docs"
                                            ELSE "compliance_eval"
           filled == build_prompt(template, comp, req,
                                  get_task_template(req.use_case_id))
           message == [role |-> "user", rule |-> idx, content |-> filled]
       IN  /\ llm_input' = RunContext(thread, message)
           /\ thread' = Append(thread, message)
    /\ api_calls' = IF assistant_id = Null
                    THEN api_calls \o <<"assistants.create", "runs.create_and_stream">>
                    ELSE Append(api_calls, "runs.create_and_stream")
    /\ assistant_id' = IF assistant_id = Null
                       THEN AssistantIds[Len(assistants) + 1]
                       ELSE assistant_id
    /\ assistants' = IF assistant_id = Null
                     THEN Append(assistants, AssistantIds[Len(assistants) + 1])
                     ELSE assistants
    /\ pc' = "scan_called"
    /\ UNCHANGED <<callVars, workers, reqVars, idx, detailed, failures,
                   raw_reply, enriched, response>>

\* ratio = float(parsed.get("grade", {}).get("score_ratio") or 0.0)
Ratio(parsed) ==
    IF parsed.grade.score_ratio = <<>> THEN <<0, 1>>
    ELSE parsed.grade.score_ratio

\* The comparison made strict: a ratio equal to the threshold fails.
PassedStrict(ratio, threshold) == ratio[1] > threshold * ratio[2]

\* passed = ratio >= comp.threshold  (ratio = n/d, threshold in hundredths)
Passed(ratio, threshold) == ratio[1] >= threshold * ratio[2]

\* The ComplianceResult of one rule for one reply.
Evaluate(comp, reply) ==
    LET parsed == parse_evaluation(reply)
        ratio == Ratio(parsed)
    IN  [name |-> comp.name, grade |-> ratio, threshold |-> comp.threshold,
         passed |-> Passed(ratio, comp.threshold)]

\* Recording only the failing rules.
RecordFailuresOnly(detailed_, comp, result) ==
    IF result.passed THEN detailed_ ELSE Put(detailed_, comp.id, result)

\* detailed[comp.id] = ComplianceResult(...)
Record(detailed_, comp, result) == Put(detailed_, comp.id, result)

\* The stream ends with the reply: it is parsed, graded and recorded.
LLMReply(reply) ==
    /\ pc = "scan_called"
    /\ raw_reply' = reply
    /\ LET comp == ActiveRules(compliances, req)[idx]
           result == Evaluate(comp, reply)
       IN  /\ detailed' = Record(detailed, comp, result)
           /\ failures' = IF result.passed THEN failures
                                           ELSE Append(failures, comp.id)
    /\ thread' = Append(thread, [role |-> "assistant", rule |-> idx,
                                 content |-> Null])
    /\ idx' = idx + 1
    /\ pc' = "scan_loop"
    /\ UNCHANGED <<callVars, workerVars, reqVars, llm_input, api_calls, assistant_id,
                   enriched, response>>

\* The call raises (transport error): run_assistant has no handler and
\* neither has the loop, so the exception leaves scan_compliance.
LLMError ==
    /\ pc = "scan_called"
    /\ response' = HTTPException(500, "APIError")
    /\ pc' = "done"
    /\ UNCHANGED <<callVars, workerVars, reqVars, loopVars, api_calls, assistant_id,
                   enriched>>

\* The call never returns: asyncio.to_thread is awaited with no timeout.
LLMHang ==
    /\ pc = "scan_called"
    /\ pc' = "scan_hung"
    /\ UNCHANGED <<callVars, workerVars, reqVars, loopVars, api_calls, assistant_id,
                   enriched, response>>

\* rephrased_prompt=None if failures else req.prompt
RephrasedPrompt(failures_, prompt) ==
    IF failures_ # <<>> THEN Null ELSE prompt

\* Returning while the last rule is still to be evaluated.
ScanRespondEarly ==
    /\ pc = "scan_loop"
    /\ idx >= Len(ActiveRules(compliances, req))
    /\ response' = [status |-> 200, detail |-> NoDetail, body |-> detailed,
                    aggregated_summary |-> Null,
                    rephrased_prompt |-> RephrasedPrompt(failures, req.prompt)]
    /\ pc' = "done"
    /\ UNCHANGED <<callVars, workerVars, reqVars, loopVars, api_calls, assistant_id,
                   enriched>>

\* After the loop: return ScanResponse(detailed=..., rephrased_prompt=...)
ScanRespond ==
    /\ pc = "scan_loop"
    /\ idx > Len(ActiveRules(compliances, req))
    /\ response' = [status |-> 200, detail |-> NoDetail, body |-> detailed,
                    aggregated_summary |-> Null,
                    rephrased_prompt |-> RephrasedPrompt(failures, req.prompt)]
    /\ pc' = "done"
    /\ UNCHANGED <<callVars, workerVars, reqVars, loopVars, api_calls, assistant_id,
                   enriched>>

\* ------------------------------------------------- aggregator_result.py
FailedIds == RuleIds \cup {"PC9"}

\* failed_json: Dict[str, Any]; a value is a mapping ("dict") or anything
\* else JSON allows ("str").
FailedJsons == UNION {[ks -> {"dict", "str"}] :
                        ks \in {k \in SUBSET FailedIds : Cardinality(k) <= MaxFailed}}

AggregationRequest == [failed_json : FailedJsons, original_prompt : {"", "orig"},
                       use_case_id : UseCases]

\* The reply of the aggregation chain, as json.loads sees it: not JSON, a
\* JSON array, or a JSON object with or without its three keys.
RecsDicts == UNION {[ks -> {<<"advice">>}] : ks \in SUBSET FailedIds}

NoReplyFields == [summary |-> "absent", recs_kind |-> "absent",
                  recs |-> EmptyDict, rephrase |-> "absent"]

AggReplies ==
    {[json |-> j] @@ NoReplyFields : j \in {"invalid", "array"}}
    \cup {[json |-> "object", summary |-> s, recs_kind |-> k,
           recs |-> EmptyDict, rephrase |-> p] :
             s \in {"absent", "text", "nonstr"}, k \in {"absent", "notdict"},
             p \in {"absent", "", "rewritten"}}
    \cup {[json |-> "object", summary |-> s, recs_kind |-> "dict",
           recs |-> d, rephrase |-> p] :
             s \in {"absent", "text", "nonstr"}, d \in RecsDicts,
             p \in {"absent", "", "rewritten"}}

\* Validating against every id any rule file knows, not the loaded set.
unknownAnywhere(failed, compliances_) ==
    {cid \in DOMAIN failed : cid \notin RuleIds}

\* valid_ids = {c.id for c in compliances}
\* unknown = [cid for cid in failed if cid not in valid_ids]
unknown(failed, compliances_) ==
    {cid \in DOMAIN failed :
        cid \notin {compliances_[k].id : k \in 1..Len(compliances_)}}

\* The enrichment loop: for comp in compliances: if comp.id in failed:
\* enriched[comp.id] = {**entry, description, threshold, name}. A later
\* rule with the same id overwrites the entry of an earlier one.
RECURSIVE Enrich(_, _, _)
Enrich(acc, failed, rules) ==
    IF rules = <<>> THEN acc
    ELSE LET comp == Head(rules)
         IN  Enrich(IF comp.id \in DOMAIN failed
                    THEN Put(acc, comp.id, [entry |-> failed[comp.id],
                                            threshold |-> comp.threshold,
                                            name |-> comp.name])
                    ELSE acc,
                    failed, Tail(rules))

\* entry.update(...) in place of {**entry, ...}: the caller's mapping grows
\* the rule's description, threshold and name.
EntryUpdatedInPlace(entry) == "dict+rule"

\* entry = failed[comp.id]; {**entry, ...} reads entry into a new mapping:
\* entry is afterwards what it was.
EntryAfterMerge(entry) == entry

\* req.failed_json once the enrichment loop has run over the rules.
FailedAfterEnrich(failed, rules) ==
    [cid \in DOMAIN failed |->
        IF \E k \in 1..Len(rules) : rules[k].id = cid
        THEN EntryAfterMerge(failed[cid])
        ELSE failed[cid]]

\* aggregate_compliance up to the LLM call: load the rules, validate the
\* ids, enrich, fill the template, start chain.arun.
AggReceive(r, outcome, rules) ==
    /\ pc = "idle"
    /\ handler' = "aggregate"
    /\ load_outcome' = Loaded(r.use_case_id, outcome)
    /\ UNCHANGED <<loopVars, assistant_id, callVars, workerVars>>
    /\ IF get_compliance_file(r.use_case_id) = "ValueError"
       THEN /\ response' = HTTPException(400, "Unknown use case")
            /\ compliances' = <<>>
            /\ req' = r
            /\ UNCHANGED <<enriched, api_calls>>
            /\ pc' = "done"
       ELSE IF IsInstance(outcome, "ValueError")
       THEN /\ response' = HTTPException(400, "Invalid compliance data")
            /\ compliances' = <<>>
            /\ req' = r
            /\ UNCHANGED <<enriched, api_calls>>
            /\ pc' = "done"
       ELSE IF outcome # "ok"
       THEN /\ response' = HTTPException(500, outcome)
            /\ compliances' = <<>>
            /\ req' = r
            /\ UNCHANGED <<enriched, api_calls>>
            /\ pc' = "done"
       ELSE IF unknown(r.failed_json, rules) # {}
       THEN /\ response' = HTTPExceptionIds(400, "Unknown compliance IDs",
                                            unknown(r.failed_json, rules))
            /\ compliances' = rules
            /\ req' = r
            /\ UNCHANGED <<enriched, api_calls>>
            /\ pc' = "done"
       ELSE IF \E cid \in DOMAIN r.failed_json : r.failed_json[cid] # "dict"
       THEN \* {**entry, ...} raises TypeError: nothing catches it
            /\ response' = HTTPException(500, "TypeError")
            /\ compliances' = rules
            /\ req' = r
            /\ UNCHANGED <<enriched, api_calls>>
            /\ pc' = "done"
       ELSE /\ response' = NoResponse
            /\ compliances' = rules
            /\ req' = [r EXCEPT !.failed_json = FailedAfterEnrich(@, rules)]
            /\ enriched' = Enrich(EmptyDict, r.failed_json, rules)
            /\ api_calls' = <<"chain.arun">>
            /\ pc' = "agg_called"

\* Taking the reply's recommendations as they come.
recommendationsOfReply(failed, raw_recs) == raw_recs

\* raw_recs = result.get("Recommendations", {})
\* for cid in req.failed_json.keys():
\*     recommendations[cid] = raw_recs.get(cid, [])
recommendations(failed, raw_recs) ==
    [cid \in DOMAIN failed |->
        IF cid \in DOMAIN raw_recs THEN raw_recs[cid] ELSE <<>>]

\* rephrased_prompt = result.get("Rephrase Prompt") or req.original_prompt
AggRephrased(reply, original_prompt) ==
    IF reply.rephrase \in {"absent", ""} THEN original_prompt
    ELSE reply.rephrase

\* Answering a reply that is not JSON as a fault of the request.
AggResultBadRequest(reply, r) ==
    IF reply.json = "invalid"
    THEN HTTPException(400, "Aggregation service returned invalid JSON")
    ELSE IF reply.json = "array" \/ reply.summary = "absent"
    THEN HTTPException(502, "Aggregation result JSON is missing 'Aggregated Summary'")
    ELSE IF reply.recs_kind = "notdict"
    THEN HTTPException(500, "AttributeError")
    ELSE IF reply.summary = "nonstr"
    THEN HTTPException(500, "ValidationError")
    ELSE [status |-> 200, detail |-> NoDetail,
          body |-> recommendations(r.failed_json, reply.recs),
          aggregated_summary |-> reply.summary,
          rephrased_prompt |-> AggRephrased(reply, r.original_prompt)]

\* What aggregate_compliance does with the reply of the chain.
AggResult(reply, r) ==
    IF reply.json = "invalid"
    THEN HTTPException(502, "Aggregation service returned invalid JSON")
    ELSE IF reply.json = "array" \/ reply.summary = "absent"
    THEN HTTPException(502, "Aggregation result JSON is missing 'Aggregated Summary'")
    ELSE IF reply.recs_kind = "notdict"
    THEN HTTPException(500, "AttributeError")   \* raw_recs.get on a list/None
    ELSE IF reply.summary = "nonstr"
    THEN HTTPException(500, "ValidationError")  \* aggregated_summary: str
    ELSE [status |-> 200, detail |-> NoDetail,
          body |-> recommendations(r.failed_json, reply.recs),
          aggregated_summary |-> reply.summary,
          rephrased_prompt |-> AggRephrased(reply, r.original_prompt)]

AggLLMReply(reply) ==
    /\ pc = "agg_called"
    /\ response' = AggResult(reply, req)
    /\ pc' = "done"
    /\ UNCHANGED <<callVars, workerVars, reqVars, loopVars, api_calls, assistant_id,
                   enriched>>

\* chain.arun raises: except Exception -> HTTPException(502, ...)
AggLLMError ==
    /\ pc = "agg_called"
    /\ response' = HTTPException(502, "Failed to generate aggregated output")
    /\ pc' = "done"
    /\ UNCHANGED <<callVars, workerVars, reqVars, loopVars, api_calls, assistant_id,
                   enriched>>

\* The response is sent and the request's objects die; the process waits
\* for the next request. Only the assistant cache outlives the request.
NextRequest ==
    /\ pc = "done"
    /\ pc' = "idle"
    /\ handler' = Null
    /\ req' = NoRequest
    /\ load_outcome' = Null
    /\ compliances' = <<>>
    /\ idx' = 0
    /\ detailed' = EmptyDict
    /\ failures' = <<>>
    /\ thread' = <<>>
    /\ llm_input' = <<>>
    /\ raw_reply' = <<>>
    /\ api_calls' = <<>>
    /\ enriched' = EmptyDict
    /\ response' = NoResponse
    /\ UNCHANGED <<assistant_id, callVars, workerVars>>

\* The guards before the quantifiers repeat the guards of the actions.
Next ==
    \/ /\ pc = "idle"
       /\ \E r \in ScanRequest, source \in Sources :
             LET loaded == load_compliances(source)
             IN  ScanReceive(r, loaded.raised, loaded.rules)
    \/ ThreadCreate
    \/ ThreadCreateFails
    \/ RunAssistant
    \/ /\ pc = "scan_called"
       /\ \E reply \in ScanReplies : LLMReply(reply)
    \/ LLMError
    \/ LLMHang
    \/ ScanRespond
    \/ /\ pc = "idle"
       /\ \E r \in AggregationRequest, source \in Sources :
             LET loaded == load_compliances(source)
             IN  AggReceive(r, loaded.raised, loaded.rules)
    \/ /\ pc = "agg_called"
       /\ \E reply \in AggReplies : AggLLMReply(reply)
    \/ AggLLMError
    \/ NextRequest

Spec == Init /\ [][Next]_vars

\* The event loop runs every handler step that can be taken.
FairSpec == Spec /\ WF_vars(Next)

\* ------------------------------------------- the functions on their own
\* filter_compliances, parse_evaluation and load_compliances are functions
\* of their arguments; each is called once on arguments drawn from the
\* sets below.

\* The rule lists handed to the filter (the filter reads id and name).
FilterRules == SeqsUpTo({c \in ComplianceDefinition : c.threshold = 50},
                        MaxRules)

\* Filter expressions: one or two clauses, on one line or on two. A
\* clause is a keyword (or none) and a comma-separated list of words.
Words == {"pc1", "No Network", "PC"}
Keywords == {"include:", "EXCLUDE:"}

JoinTerms(ws) ==
    IF ws = <<>> THEN <<>>
    ELSE [k \in 1..(2 * Len(ws) - 1) |->
             IF k % 2 = 1 THEN ws[(k + 1) \div 2] ELSE ","]

Clauses ==
    {JoinTerms(ws) : ws \in SeqsUpTo(Words, MaxTerms)}
    \cup {<<kw>> \o JoinTerms(ws) :
            kw \in Keywords, ws \in SeqsUpTo(Words, MaxTerms)}

\* An expression: a clause, a separator (nothing or a line break) and a
\* second clause.
Separators == {<<>>, <<"\n">>}

Expression(a, sep, b) == a \o sep \o b

\* Texts: up to MaxLines lines, headers in and out of the documented
\* order, a header in lower case, a header followed by a colon, prose and
\* the lines of a grade.
TextLines == {Hdr(1), Hdr(5), Hdr(6), HdrLower(6), HdrColon(6), Txt(1),
              Score(66, 1), Score(100, 0), Thr(97), Res(1)}

Texts == SeqsUpTo(TextLines, MaxLines)

\* One call, of one of the three functions, not yet returned.
CallInit ==
    /\ ServiceInit
    /\ WorkerInit
    /\ returned = FALSE
    /\ ret = <<>>
    /\ \/ \E rules \in FilterRules, a \in Clauses, b \in Clauses,
             sep \in Separators :
             call = [fn |-> "filter_compliances", compliances |-> rules,
                     expression |-> Expression(a, sep, b)]
       \/ \E t \in Texts : call = [fn |-> "parse_evaluation", text |-> t]
       \/ \E src \in Sources :
             call = [fn |-> "load_compliances", source |-> src]

CallFilter ==
    /\ call.fn = "filter_compliances"
    /\ ~returned
    /\ ret' = filter_compliances(call.compliances, call.expression)
    /\ returned' = TRUE
    /\ UNCHANGED <<call, serviceVars, workerVars>>

CallParse ==
    /\ call.fn = "parse_evaluation"
    /\ ~returned
    /\ ret' = parse_evaluation(call.text)
    /\ returned' = TRUE
    /\ UNCHANGED <<call, serviceVars, workerVars>>

CallLoad ==
    /\ call.fn = "load_compliances"
    /\ ~returned
    /\ ret' = load_compliances(call.source)
    /\ returned' = TRUE
    /\ UNCHANGED <<call, serviceVars, workerVars>>

CallNext == CallFilter \/ CallParse \/ CallLoad

CallSpec == CallInit /\ [][CallNext]_vars

\* ------------------------------------------ the worker threads at once
\* Concurrent scan requests each await run_assistant, which hands
\* _assistant_stream to a thread of the default executor: up to MaxWorkers
\* threads are inside _assistant_stream at the same time and share the
\* lru_cache of get_assistant_id (assistant_id).
requestVars == <<pc, handler, req, load_outcome, compliances, idx, detailed,
                 failures, thread, llm_input, raw_reply, api_calls, enriched,
                 response>>

At(w, place, id) == [workers EXCEPT ![w] = [at |-> place, id |-> id]]

\* asyncio.to_thread(_assistant_stream, prompt, thread_id): the thread
\* enters _assistant_stream and calls get_assistant_id().
WorkerStart(w) ==
    /\ workers[w].at = "idle"
    /\ workers' = At(w, "lookup", Null)
    /\ UNCHANGED <<requestVars, assistant_id, assistants, callVars>>

\* The lru_cache wrapper looks the key up: on a hit it returns the cached
\* id, on a miss it goes on to call the wrapped function, holding no lock
\* while the function runs.
CacheLookup(w) ==
    /\ workers[w].at = "lookup"
    /\ workers' = IF assistant_id # Null THEN At(w, "stream", assistant_id)
                                         ELSE At(w, "creating", Null)
    /\ UNCHANGED <<requestVars, assistant_id, assistants, callVars>>

\* The body of get_assistant_id: client.beta.assistants.create(...).
AssistantCreate(w) ==
    /\ workers[w].at = "creating"
    /\ Len(assistants) < Len(AssistantIds)
    /\ assistants' = Append(assistants, AssistantIds[Len(assistants) + 1])
    /\ workers' = At(w, "store", AssistantIds[Len(assistants) + 1])
    /\ UNCHANGED <<requestVars, assistant_id, callVars>>

\* The wrapper stores the result unless the key has been stored meanwhile,
\* and returns the result of its own call of the function.
CacheStore(w) ==
    /\ workers[w].at = "store"
    /\ assistant_id' = IF assistant_id = Null THEN workers[w].id
                                              ELSE assistant_id
    /\ workers' = At(w, "stream", workers[w].id)
    /\ UNCHANGED <<requestVars, assistants, callVars>>

\* runs.create_and_stream(thread_id, assistant_id, ...) to the end of the
\* stream; the thread is free for the next call.
RunStream(w) ==
    /\ workers[w].at = "stream"
    /\ workers' = At(w, "idle", Null)
    /\ UNCHANGED <<requestVars, assistant_id, assistants, callVars>>

WorkerNext ==
    \E w \in Workers :
       \/ WorkerStart(w)
       \/ CacheLookup(w)
       \/ AssistantCreate(w)
       \/ CacheStore(w)
       \/ RunStream(w)

WorkerSpec == Init /\ [][WorkerNext]_vars

\* ================================================================ claims
ScanResponded == handler = "scan" /\ pc = "done" /\ response.status = 200

AggResponded == handler = "aggregate" /\ pc = "done" /\ response.status = 200

IdsOf(rules) == {rules[k].id : k \in 1..Len(rules)}

\* C1: in every ScanResponse, rephrased_prompt is non-null if and only if
\* at least one evaluated rule failed (null when every rule passes).
C1_RephrasedIffSomeRuleFailed ==
    ScanResponded => ((response.rephrased_prompt # Null) <=> (failures # <<>>))

\* C2: a step in which the LLM call of one rule fails does not end the
\* scan: the rule is recorded in detailed as failed and the loop goes on
\* to the next rule.
C2_RuleFailureIsIsolated ==
    [][LLMError =>
          /\ pc' = "scan_loop"
          /\ idx' = idx + 1
          /\ compliances[idx].id \in DOMAIN detailed'
          /\ ~detailed'[compliances[idx].id].passed]_vars

C4_PassedIffRatioAtLeastThreshold ==
    (handler = "scan" /\ pc = "scan_loop" /\ idx > 1) =>
        \A n \in ReplyScores, d \in ReplyDenoms :
           raw_reply = GradedReply(n, d) =>
              LET comp == compliances[idx - 1]
              IN  detailed[comp.id].passed =
                     (IF d = 0 THEN 0 >= comp.threshold
                               ELSE n >= comp.threshold * d)

\* A rule whose ratio 100/2 equals its threshold 0.50 has passed, and one
\* graded 66/1 against 0.97 has failed.
C4_Witness ==
    /\ handler = "scan"
    /\ pc = "scan_loop"
    /\ raw_reply = GradedReply(66, 1)
    /\ DOMAIN detailed = {"PC1", "PC2"}
    /\ detailed["PC1"].grade = <<100, 2>>
    /\ detailed["PC1"].threshold = 50
    /\ detailed["PC1"].passed
    /\ detailed["PC2"].grade = <<66, 1>>
    /\ detailed["PC2"].threshold = 97
    /\ ~detailed["PC2"].passed

\* C5: in every AggregationResponse the keys of recommendations are the
\* keys of failed_json, and an id the reply's recommendations omit maps to
\* the empty list.
C5_RecommendationsCoverFailedJson ==
    [][\A reply \in AggReplies :
          (AggLLMReply(reply) /\ response'.status = 200) =>
             /\ DOMAIN response'.body = DOMAIN req.failed_json
             /\ \A cid \in DOMAIN req.failed_json :
                   cid \notin DOMAIN reply.recs => response'.body[cid] = <<>>]_vars

\* failed_json {PC1, PC2}, the reply mentions only PC1: PC2 -> [].
C5_Witness ==
    /\ AggResponded
    /\ DOMAIN req.failed_json = {"PC1", "PC2"}
    /\ DOMAIN response.body = {"PC1", "PC2"}
    /\ response.body["PC1"] = <<"advice">>
    /\ response.body["PC2"] = <<>>

\* C6: a scan request with more documents than max_documents ends with a
\* 400 error and no Assistants API call.
C6_TooManyDocumentsIs400 ==
    (handler = "scan" /\ pc = "done" /\ req.documents > max_documents) =>
        (response.status = 400 /\ api_calls = <<>>)

\* C7: an aggregate call whose failed_json has a key that is no id of the
\* loaded rule set ends with a 400 error naming exactly those keys, with
\* nothing enriched and no LLM call.
C7_UnknownIdsAre400 ==
    (/\ handler = "aggregate"
     /\ pc \in {"agg_called", "done"}
     /\ load_outcome = "ok"
     /\ DOMAIN req.failed_json \ IdsOf(compliances) # {}) =>
        /\ pc = "done"
        /\ response.status = 400
        /\ response.detail.ids = DOMAIN req.failed_json \ IdsOf(compliances)
        /\ enriched = EmptyDict
        /\ api_calls = <<>>

C7_Witness ==
    /\ handler = "aggregate"
    /\ pc = "done"
    /\ load_outcome = "ok"
    /\ IdsOf(compliances) = {"PC1"}
    /\ DOMAIN req.failed_json = {"PC1", "PC2"}
    /\ response.status = 400
    /\ response.detail.ids = {"PC2"}

\* C8: the input presented to the LLM for a rule is the prompt built from
\* that rule, the request and the task header, and nothing else.
C8_LLMInputIsTheRulesPrompt ==
    (handler = "scan" /\ pc = "scan_called") =>
        llm_input =
           <<[role |-> "user", rule |-> idx,
              content |-> build_prompt(
                 IF req.documents > 0 THEN "compliance_eval_with_docs"
                                      ELSE "compliance_eval",
                 compliances[idx], req, get_task_template(req.use_case_id))]>>

\* C9: a scan in which the LLM call of a rule never returns still ends
\* with a ScanResponse.
C9_HungCallEndsInResponse ==
    (pc = "scan_hung") ~> ScanResponded

\* C10: the rules a scan evaluates (the keys of detailed, the rules whose
\* prompt is sent) are the rules filter_compliances keeps for the caller's
\* filter expression.
C10_ScanEvaluatesFilteredRules ==
    (handler = "scan" /\ pc \in {"scan_called", "scan_loop", "done"}
                      /\ load_outcome = "ok") =>
        LET kept == filter_compliances(compliances, req.compliance_filter)
        IN  /\ \A k \in 1..Len(thread) :
                  thread[k].role = "user" =>
                     \E j \in 1..Len(kept) : kept[j] = thread[k].content.compliance
            /\ DOMAIN detailed \subseteq IdsOf(kept)
            /\ ScanResponded => DOMAIN response.body = IdsOf(kept)

\* ---------------------------------------------------- filter_compliances
FilterReturned == call.fn = "filter_compliances" /\ returned

HasClause(expression, keyword) ==
    \E k \in 1..Len(expression) : lower(expression[k]) = keyword

\* The tokens of a clause of its own: those after the first occurrence of
\* its keyword, up to the next keyword, the end of the line or the end of
\* the expression.
OwnClause(expression, keyword) ==
    LET e == LowerAll(expression)
        k0 == Min({k \in 1..Len(e) : e[k] = keyword})
        stops == {k \in (k0 + 1)..Len(e) : e[k] \in {"include:", "exclude:", "\n"}}
        stop == IF stops = {} THEN Len(e) + 1 ELSE Min(stops)
    IN  SubSeq(e, k0 + 1, stop - 1)

\* The comma-separated terms of a clause; a clause with no term, or no
\* clause, is the empty list.
OwnTerms(expression, keyword) ==
    IF HasClause(expression, keyword)
    THEN SplitTerms(OwnClause(expression, keyword)) \ {<<>>}
    ELSE {}

EqualsATerm(comp, terms) ==
    \/ <<lower(comp.id)>> \in terms
    \/ <<lower(comp.name)>> \in terms

\* C11: when the expression has an include clause and an exclude clause,
\* the result holds no rule whose id or name equals, whatever the case of
\* the letters, a term of the exclude clause.
C11_ExcludeWinsOverInclude ==
    (/\ FilterReturned
     /\ HasClause(call.expression, "include:")
     /\ HasClause(call.expression, "exclude:")) =>
        \A k \in 1..Len(ret) :
           ~EqualsATerm(ret[k], OwnTerms(call.expression, "exclude:"))

\* C12: with an expression that has neither an include nor an exclude
\* clause, the empty one included, the result is the rule list itself,
\* every rule in its place.
C12_NoClauseIsIdentity ==
    (/\ FilterReturned
     /\ ~HasClause(call.expression, "include:")
     /\ ~HasClause(call.expression, "exclude:")) =>
        ret = call.compliances

\* Two rules, PC2 before PC1, and the expression "pc1, PC" with no clause.
C12_Witness ==
    /\ FilterReturned
    /\ call.expression = <<"pc1", ",", "PC">>
    /\ Len(call.compliances) = 2
    /\ call.compliances[1].id = "PC2"
    /\ call.compliances[2].id = "PC1"
    /\ ret = call.compliances

\* C13: a rule is kept if and only if (the include list is empty or the
\* rule's id or name equals an include term) and not (the exclude list is
\* non-empty and the rule's id or name equals an exclude term), the lists
\* being the terms of their own clause and equality being exact but for
\* the case of the letters.
C13_KeptIffIncludedAndNotExcluded ==
    FilterReturned =>
        LET include_list == OwnTerms(call.expression, "include:")
            exclude_list == OwnTerms(call.expression, "exclude:")
            Kept(comp) ==
                /\ include_list = {} \/ EqualsATerm(comp, include_list)
                /\ ~(exclude_list # {} /\ EqualsATerm(comp, exclude_list))
        IN  ret = SelectSeq(call.compliances, Kept)

\* ------------------------------------------------------ parse_evaluation
ParseReturned == call.fn = "parse_evaluation" /\ returned

HasHeader(text, s) == \E i \in 1..Len(text) : IsHeader(text[i], s)

ParsedKeys == {"problem", "why_it_failed", "what_to_fix", "rephrase_prompt",
               "compliance_id_and_name", "grade"}

\* C14: for every text, sections missing or out of the documented order
\* included, parse_evaluation returns a mapping with every key; a section
\* whose header is missing is the empty text, and a missing Grade section
\* gives the score 0 (over the denominator 1).
C14_ParseReturnsEveryKey ==
    ParseReturned =>
        /\ DOMAIN ret = ParsedKeys
        /\ \A s \in 1..5 :
              ~HasHeader(call.text, s) => ret[SECTION_HEADERS[s]] = <<>>
        /\ ~HasHeader(call.text, 6) =>
              /\ ret.grade.score_raw = 0
              /\ ret.grade.score_ratio = <<0, 1>>

\* The identity section before the Problem section, no other section and
\* no Grade: the identity block runs to the end of the text.
C14_Witness ==
    /\ ParseReturned
    /\ call.text = <<Hdr(5), Txt(1), Hdr(1), Score(66, 1)>>
    /\ ret.problem = <<Score(66, 1)>>
    /\ ret.why_it_failed = <<>>
    /\ ret.compliance_id_and_name = <<Txt(1), Hdr(1), Score(66, 1)>>
    /\ ret.grade.score_raw = 0

\* ------------------------------------------ scan: grade, rephrased prompt
\* A text with a Grade header and a score line after it.
HasGradeScore(text) ==
    \E i \in 1..Len(text), j \in 1..Len(text) :
       i < j /\ IsHeader(text[i], 6) /\ text[j].kind = "score"

C16_FailureCarriesRewrite ==
    (ScanResponded /\ failures # <<>>) =>
        /\ response.rephrased_prompt # Null
        /\ Len(compliances) = 1 =>
              LET rewrite == parse_evaluation(raw_reply).rephrase_prompt
              IN  IF rewrite # <<>>
                  THEN response.rephrased_prompt = rewrite
                  ELSE response.rephrased_prompt = req.prompt

\* ------------------------------------------------- aggregate: rephrased
\* C17: in every AggregationResponse rephrased_prompt is neither null nor
\* empty: it is the reply's rewritten prompt when the reply has a
\* non-empty one, and the request's original_prompt otherwise.
C17_AggRephrasedNeverEmpty ==
    [][\A reply \in AggReplies :
          (AggLLMReply(reply) /\ response'.status = 200) =>
             /\ response'.rephrased_prompt \notin {Null, ""}
             /\ response'.rephrased_prompt =
                   IF reply.rephrase \notin {"absent", ""}
                   THEN reply.rephrase
                   ELSE req.original_prompt]_vars

\* ------------------------------------------------------ load_compliances
LoadReturned == call.fn = "load_compliances" /\ returned

\* The document, or one of its items, breaks the structure or a field
\* constraint.
SchemaViolated(source) ==
    /\ source.file = "yaml"
    /\ \/ source.top # "list"
       \/ \E k \in 1..Len(source.items) : source.items[k].shape # "valid"

C19_LoadedIdsAreDistinct ==
    (LoadReturned /\ ret.raised = "ok") =>
        \A j \in 1..Len(ret.rules), k \in 1..Len(ret.rules) :
           j # k => ret.rules[j].id # ret.rules[k].id

\* C20: each class of failure has its own kind of error: a missing source
\* FileNotFoundError, unparsable YAML YAMLError, a structure or field
\* violation ValueError; any other exception is wrapped in a RuntimeError
\* whose cause is that exception, and none of the first three is.
C20_EachFailureHasItsErrorKind ==
    LoadReturned =>
        /\ call.source.file = "missing" => ret.raised = "FileNotFoundError"
        /\ call.source.file = "bad_yaml" => ret.raised = "YAMLError"
        /\ SchemaViolated(call.source) => ret.raised = "ValueError"
        /\ call.source.file = "unreadable" =>
              ret.raised = "RuntimeError" /\ ret.cause = "PermissionError"
        /\ call.source.file = "undecodable" =>
              ret.raised = "RuntimeError" /\ ret.cause = "UnicodeDecodeError"
        /\ ret.raised = "RuntimeError" =>
              ret.cause \notin {"FileNotFoundError", "YAMLError", "ValueError"}

\* C21: a scan request with a document larger than max_document_size ends
\* with a 400 error before any Assistants API call.
C21_OversizedDocumentIs400 ==
    (handler = "scan" /\ req.largest_document > max_document_size) =>
        (pc = "done" /\ response.status = 400 /\ api_calls = <<>>)

\* C22: a scan request that meets a rule-set configuration failure (unknown
\* use case, missing rule file, malformed or schema-invalid rule file) ends
\* with a 4xx error carrying a message, with no Assistants API call and no
\* partial work.
C22_ConfigurationFailureIs4xx ==
    (handler = "scan"
        /\ load_outcome \in {"ValueError", "FileNotFoundError", "YAMLError"})
    => /\ pc = "done"
       /\ response.status \in 400..499
       /\ response.detail.msg # ""
       /\ api_calls = <<>>
       /\ thread = <<>>
       /\ detailed = EmptyDict

\* ------------------------------------------- aggregate: upstream faults
\* The response carries no field of an AggregationResponse.
NoAggregationResponse(resp) ==
    /\ resp.body = EmptyDict
    /\ resp.aggregated_summary = Null
    /\ resp.rephrased_prompt = Null

\* C23 as stated: a reply that is not valid JSON ends the aggregate call
\* with a 400 error and a failed LLM call ends it with a 502 error; the two
\* errors differ and neither carries an AggregationResponse.
C23_InvalidJsonIs400FailureIs502 ==
    [][/\ \A reply \in {x \in AggReplies : x.json = "invalid"} :
             AggLLMReply(reply) =>
                /\ response'.status = 400
                /\ NoAggregationResponse(response')
       /\ AggLLMError =>
             /\ response'.status = 502
             /\ NoAggregationResponse(response')]_vars

\* C23 as amended: a reply that is not valid JSON and a failed LLM call
\* both end the aggregate call with a 502 error; the two errors differ in
\* their detail message and neither carries an AggregationResponse.
C23_UpstreamFaultsAre502 ==
    [][/\ \A reply \in {x \in AggReplies : x.json = "invalid"} :
             AggLLMReply(reply) =>
                /\ response'.status = 502
                /\ response'.detail.msg # ""
                /\ response'.detail.msg
                      # HTTPException(502, "Failed to generate aggregated output").detail.msg
                /\ NoAggregationResponse(response')
       /\ AggLLMError =>
             /\ response'.status = 502
             /\ response'.detail.msg # ""
             /\ \A reply \in {x \in AggReplies : x.json = "invalid"} :
                   response'.detail.msg # AggResult(reply, req).detail.msg
             /\ NoAggregationResponse(response')]_vars

\* An aggregate call has been answered that its reply was not valid JSON.
C23_Witness ==
    /\ handler = "aggregate"
    /\ pc = "done"
    /\ Len(api_calls) = 1
    /\ response.status = 502
    /\ response.detail.msg = "Aggregation service returned invalid JSON"

\* ------------------------------------------------------ frame: rules
\* C24: no request changes a loaded rule or the caller's failed_json: while
\* a request is served the rule list and the request stay what they were
\* when it was received, every rule is a ComplianceDefinition as loaded,
\* and the enriched entries are copies beside an untouched failed_json.
C24_RequestsMutateNoRule ==
    [][/\ (pc # "idle" /\ pc' # "idle") =>
             (compliances' = compliances /\ req' = req)
       /\ \A k \in 1..Len(compliances') :
             compliances'[k] \in ComplianceDefinition
       /\ (handler' = "aggregate") =>
             /\ req' \in AggregationRequest
             /\ \A cid \in DOMAIN enriched' :
                   /\ enriched'[cid].entry = "dict"
                   /\ req'.failed_json[cid] = "dict"]_vars

\* An aggregate call has enriched two entries and been answered.
C24_Witness ==
    /\ handler = "aggregate"
    /\ pc = "done"
    /\ response.status = 200
    /\ DOMAIN enriched = {"PC1", "PC2"}
    /\ DOMAIN req.failed_json = {"PC1", "PC2"}

\* ------------------------------------------------------- scan: phases
\* The prompt of the k-th rule of the current scan, as build_prompt renders
\* it.
Rendered(k) ==
    build_prompt(IF req.documents > 0 THEN "compliance_eval_with_docs"
                                      ELSE "compliance_eval",
                 compliances[k], req, get_task_template(req.use_case_id))

\* C25: within one scan the phases come in the order received, rules
\* loaded, per rule (rendered, called, parsed), decision, responded: the
\* thread holds, rule after rule, the rendered prompt followed by the
\* reply; a call in flight is the call of the rule just rendered; every
\* rule before the current one has been parsed and recorded; and the
\* response with its rephrase decision exists only once every rule has been
\* called and parsed.
C25_ScanPhasesInOrder ==
    (handler = "scan") =>
       /\ pc \in {"scan_thread", "scan_loop", "scan_called", "scan_hung"} =>
             (load_outcome = "ok" /\ response = NoResponse)
       /\ \A k \in 1..Len(thread) :
             /\ thread[k].rule = (k + 1) \div 2
             /\ thread[k].role = IF k % 2 = 1 THEN "user" ELSE "assistant"
             /\ (k % 2 = 1) => thread[k].content = Rendered(thread[k].rule)
       /\ pc \in {"scan_called", "scan_hung"} =>
             /\ idx \in 1..Len(compliances)
             /\ Len(thread) = 2 * idx - 1
             /\ llm_input # <<>>
             /\ llm_input[Len(llm_input)].content = Rendered(idx)
       /\ pc = "scan_loop" =>
             /\ Len(thread) = 2 * (idx - 1)
             /\ \A k \in 1..(idx - 1) : compliances[k].id \in DOMAIN detailed
       /\ (pc = "done" /\ response.status = 200) =>
             /\ idx = Len(compliances) + 1
             /\ Len(thread) = 2 * Len(compliances)
             /\ \A k \in 1..Len(compliances) :
                   compliances[k].id \in DOMAIN response.body

\* A scan over two rules has been answered.
C25_Witness ==
    /\ handler = "scan"
    /\ pc = "done"
    /\ response.status = 200
    /\ Len(compliances) = 2
    /\ Len(thread) = 4

\* ------------------------------------------------------- parser: grade
\* C26: the grade record parse_evaluation returns is self-consistent:
\* score_ratio is score_raw / denominator when the denominator is not 0,
\* and, with a threshold, result is "Passed" exactly when score_ratio is at
\* least the threshold.
C26_GradeRecordIsConsistent ==
    ParseReturned =>
        LET g == ret.grade
        IN  (g.denominator # 0) =>
               /\ g.score_ratio = <<g.score_raw, g.denominator>>
               /\ (g.threshold # -1) =>
                     ((g.result = 1) <=> Passed(g.score_ratio, g.threshold))

\* ----------------------------------------------------- parser: headers
\* The line with its header, if it is one, in the documented case and
\* without a colon.
PlainLine(line) ==
    IF line.kind \in {"hdrlower", "hdrcolon"} THEN Hdr(line.sec) ELSE line

PlainText(text) == [i \in 1..Len(text) |-> PlainLine(text[i])]

\* The mapping with the header lines its sections captured made plain.
PlainParsed(parsed) ==
    [k \in DOMAIN parsed |->
        IF k = "grade" THEN parsed[k] ELSE PlainText(parsed[k])]

\* C27: parse_evaluation finds a section header whatever its letter case
\* and with or without a colon after it: a text parses to the mapping its
\* plain form (headers in the documented case, no colon) parses to.
C27_HeaderCaseAndColonTolerated ==
    ParseReturned =>
        PlainParsed(ret) = PlainParsed(parse_evaluation(PlainText(call.text)))

\* ------------------------------------------------- aggregate: one call
\* C28: an aggregate call that passes the id validation invokes the LLM
\* exactly once, after every entry of failed_json has been enriched with
\* its rule's threshold and name, and never again after the call failed or
\* replied.
C28_AggCallsLLMOnceAfterEnrichment ==
    (/\ handler = "aggregate"
     /\ load_outcome = "ok"
     /\ unknown(req.failed_json, compliances) = {}) =>
        /\ pc \in {"agg_called", "done"}
        /\ api_calls = <<"chain.arun">>
        /\ DOMAIN enriched = DOMAIN req.failed_json
        /\ \A cid \in DOMAIN enriched :
              \E k \in 1..Len(compliances) :
                 /\ compliances[k].id = cid
                 /\ enriched[cid].threshold = compliances[k].threshold
                 /\ enriched[cid].name = compliances[k].name

\* ------------------------------------------------------ scan: API calls
\* The API calls of a scan over n rules according to the module docstring:
\* one thread creation and one run-stream call per rule.
DocumentedCalls(n) ==
    <<"threads.create">> \o [k \in 1..n |-> "runs.create_and_stream"]

\* C29: a /scan request that completes over N rules has issued exactly
\* 1 + N Assistants API calls, the thread creation and one run-stream call
\* per rule, and no other.
C29_ScanIssuesOnePlusNCalls ==
    ScanResponded => api_calls = DocumentedCalls(Len(compliances))

\* -------------------------------------------------- scan: the assistant
\* C30: under any interleaving of the worker threads the process creates
\* the assistant at most once, and every run uses the cached assistant.
C30_AssistantCreatedAtMostOnce ==
    /\ Len(assistants) <= 1
    /\ \A w \in Workers :
          workers[w].at = "stream" => workers[w].id = assistant_id

====
